---- MODULE Spec2Model ----
(***************************************************************************)
(* cosmac: the decode/execute core of a CHIP-8 style virtual machine.      *)
(*                                                                         *)
(* The repository holds two builds of the core: the library crate          *)
(* (lib.rs, instruction.rs, chip.rs, components/) and the older            *)
(* stand-alone binary (main.rs), which carries its own Instruction,        *)
(* Register and Chip.  The variable target says which of the two a         *)
(* behaviour runs.                                                         *)
(***************************************************************************)
EXTENDS Integers, Sequences, FiniteSets, TLC

VARIABLES
    target,   \* the build that runs: "lib" (chip.rs) or "bin" (main.rs)
    chip,     \* the Chip
    status,   \* "ok", or "panic" once an execute call has panicked
    hist,     \* the execute calls made so far, each with the Chip before it
    op,       \* the opcode handed to Instruction::parse
    decoded   \* what Instruction::parse did with op

vars == <<target, chip, status, hist, op, decoded>>

-----------------------------------------------------------------------------
(* Machine integers *)

U8 == 256

U16 == 65536

RegisterCount == 16

MemorySize == 4096

Byte == 0 .. (U8 - 1)

RECURSIVE BitsOf(_, _)
\* the low n bits of v, least significant first
BitsOf(v, n) == IF n = 0 THEN <<>> ELSE <<v % 2>> \o BitsOf(v \div 2, n - 1)

RECURSIVE FromBits(_)
FromBits(bits) ==
    IF bits = <<>> THEN 0 ELSE Head(bits) + 2 * FromBits(Tail(bits))

\* Rust's & | ^ on u8 operands
BitAnd(a, b) ==
    LET x == BitsOf(a, 8)
        y == BitsOf(b, 8)
    IN  FromBits([k \in 1 .. 8 |-> x[k] * y[k]])

BitOr(a, b) ==
    LET x == BitsOf(a, 8)
        y == BitsOf(b, 8)
    IN  FromBits([k \in 1 .. 8 |-> IF x[k] + y[k] > 0 THEN 1 ELSE 0])

BitXor(a, b) ==
    LET x == BitsOf(a, 8)
        y == BitsOf(b, 8)
    IN  FromBits([k \in 1 .. 8 |-> (x[k] + y[k]) % 2])

-----------------------------------------------------------------------------
(* Instruction: the enum's variants, as records tagged by op *)

Sys(addr) == [op |-> "Sys", addr |-> addr]

Cls == [op |-> "Cls"]

Ret == [op |-> "Ret"]

Jp(addr) == [op |-> "Jp", addr |-> addr]

Call(addr) == [op |-> "Call", addr |-> addr]

SeByte(vx, value) == [op |-> "SeByte", vx |-> vx, value |-> value]

SneByte(vx, value) == [op |-> "SneByte", vx |-> vx, value |-> value]

Se(vx, vy) == [op |-> "Se", vx |-> vx, vy |-> vy]

LdByte(vx, value) == [op |-> "LdByte", vx |-> vx, value |-> value]

AddByte(vx, value) == [op |-> "AddByte", vx |-> vx, value |-> value]

Ld(vx, vy) == [op |-> "Ld", vx |-> vx, vy |-> vy]

Or(vx, vy) == [op |-> "Or", vx |-> vx, vy |-> vy]

And(vx, vy) == [op |-> "And", vx |-> vx, vy |-> vy]

Xor(vx, vy) == [op |-> "Xor", vx |-> vx, vy |-> vy]

Add(vx, vy) == [op |-> "Add", vx |-> vx, vy |-> vy]

Sub(vx, vy) == [op |-> "Sub", vx |-> vx, vy |-> vy]

Shr(vx) == [op |-> "Shr", vx |-> vx]

Subn(vx, vy) == [op |-> "Subn", vx |-> vx, vy |-> vy]

Shl(vx) == [op |-> "Shl", vx |-> vx]

Sne(vx, vy) == [op |-> "Sne", vx |-> vx, vy |-> vy]

Ldi(value) == [op |-> "Ldi", value |-> value]

JpV0(addr) == [op |-> "JpV0", addr |-> addr]

Rnd(vx, mask) == [op |-> "Rnd", vx |-> vx, mask |-> mask]

LdVxDelay(vx) == [op |-> "LdVxDelay", vx |-> vx]

LdDelayVx(vx) == [op |-> "LdDelayVx", vx |-> vx]

\* main.rs only: the library's enum has no such variant
Unknown == [op |-> "Unknown"]

-----------------------------------------------------------------------------
(* Outcomes of a call *)

NotCalled == [outcome |-> "none"]

Returned(v) == [outcome |-> "returned", value |-> v]

\* unimplemented!(), or an index out of bounds
Panicked == [outcome |-> "panic"]

-----------------------------------------------------------------------------
(* Instruction::parse *)

\* let instruction = (op >> 12 & 15, (op >> 8) & 15, (op >> 4) & 15, op & 15);
Nibbles(w) ==
    << (w \div 4096) % 16, (w \div 256) % 16, (w \div 16) % 16, w % 16 >>

\* Mutant of ParseArms: x is op >> 8, its high nibble not masked off
ParseArms_unmasked(w) ==
    LET n == Nibbles(w)
        x == w \div 256
        y == n[3]
    IN  CASE n[1] = 6 -> Returned(LdByte(x, ((n[3] * 16) + n[4]) % U8))
          [] n[1] = 8 /\ n[4] = 0 -> Returned(Ld(x, y))
          [] n[1] = 8 /\ n[4] = 1 -> Returned(Or(x, y))
          [] n[1] = 8 /\ n[4] = 2 -> Returned(And(x, y))
          [] n[1] = 8 /\ n[4] = 3 -> Returned(Xor(x, y))
          [] n[1] = 8 /\ n[4] = 4 -> Returned(Add(x, y))
          [] n[1] = 8 /\ n[4] = 5 -> Returned(Sub(x, y))
          [] n[1] = 8 /\ n[4] = 6 -> Returned(Shr(x))
          [] n[1] = 8 /\ n[4] = 7 -> Returned(Subn(x, y))
          [] n[1] = 8 /\ n[4] = 14 -> Returned(Shl(x))
          [] OTHER -> NotCalled

\* The arms both builds share: every arm but the last
ParseArms(w) ==
    LET n == Nibbles(w)
        x == n[2]
        y == n[3]
    IN  CASE n[1] = 6 -> Returned(LdByte(x, ((n[3] * 16) + n[4]) % U8))
          [] n[1] = 8 /\ n[4] = 0 -> Returned(Ld(x, y))
          [] n[1] = 8 /\ n[4] = 1 -> Returned(Or(x, y))
          [] n[1] = 8 /\ n[4] = 2 -> Returned(And(x, y))
          [] n[1] = 8 /\ n[4] = 3 -> Returned(Xor(x, y))
          [] n[1] = 8 /\ n[4] = 4 -> Returned(Add(x, y))
          [] n[1] = 8 /\ n[4] = 5 -> Returned(Sub(x, y))
          [] n[1] = 8 /\ n[4] = 6 -> Returned(Shr(x))
          [] n[1] = 8 /\ n[4] = 7 -> Returned(Subn(x, y))
          [] n[1] = 8 /\ n[4] = 14 -> Returned(Shl(x))
          [] OTHER -> NotCalled

\* instruction.rs: the last arm is _ => unimplemented!()
parse(w) ==
    IF ParseArms(w) # NotCalled THEN ParseArms(w) ELSE Panicked

\* main.rs: the last arm is _ => Instruction::Unknown
main_parse(w) ==
    IF ParseArms(w) # NotCalled THEN ParseArms(w) ELSE Returned(Unknown)

-----------------------------------------------------------------------------
(* components: Register, Memory, AddressableStorage *)

\* Register::new
Register_new ==
    [delay |-> 0, i |-> 0, sound |-> 0,
     values |-> [k \in 0 .. (RegisterCount - 1) |-> 0]]

\* Register::with_values: the first min(values.len(), 16) bytes, zeros after
Register_with_values(vals) ==
    [delay |-> 0, i |-> 0, sound |-> 0,
     values |-> [k \in 0 .. (RegisterCount - 1) |->
                    IF k < Len(vals) THEN vals[k + 1] ELSE 0]]

\* Memory::new: [0u8; 4096], held as its non-zero cells
Memory_new == [values |-> << >>]

\* self.values[key] of a [u8; 16]: Rust checks the index
InBounds(key) == key \in 0 .. (RegisterCount - 1)

\* <Register as AddressableStorage>::get, for a key in bounds
get(register, key) == register.values[key]

\* <Register as AddressableStorage>::set, for a key in bounds
set(register, key, value) == [register EXCEPT !.values[key] = value]

\* self.values[key] of a [u8; 4096]: Rust checks the index
Memory_InBounds(key) == key \in 0 .. (MemorySize - 1)

\* <Memory as AddressableStorage>::get, for a key in bounds
Memory_get(memory, key) ==
    IF key \in DOMAIN memory.values THEN memory.values[key] ELSE 0

\* <Memory as AddressableStorage>::set, for a key in bounds
Memory_set(memory, key, value) ==
    [memory EXCEPT !.values =
        IF value = 0
        THEN [k \in (DOMAIN memory.values) \ {key} |-> memory.values[k]]
        ELSE [k \in (DOMAIN memory.values) \cup {key} |->
                 IF k = key THEN value ELSE memory.values[k]]]

\* main.rs: Register { values } alone
main_Register_with_values(vals) ==
    [values |-> [k \in 0 .. (RegisterCount - 1) |->
                    IF k < Len(vals) THEN vals[k + 1] ELSE 0]]

-----------------------------------------------------------------------------
(* Chip *)

\* Chip::new
Chip_new ==
    [register |-> Register_new, memory |-> Memory_new,
     program_counter |-> 0, stack |-> << >>]

\* Chip::with_register_values
with_register_values(vals) ==
    [Chip_new EXCEPT !.register = Register_with_values(vals)]

\* main.rs: Chip::new and Chip::with_register_values, a Chip of registers alone
main_with_register_values(vals) ==
    [register |-> main_Register_with_values(vals)]

\* How one arm of execute ends
Done(c) == [chip |-> c, outcome |-> "ok"]

Panic(c) == [chip |-> c, outcome |-> "panic"]

\* self.register.set(key, value) on the Chip
SetReg(c, key, value) == [c EXCEPT !.register = set(c.register, key, value)]

\* (d & 255) as u8 of an i16 d: the low byte of its two's complement
LowByteI16(d) == ((d + U16) % U16) % U8

-----------------------------------------------------------------------------
(* Chip::execute, arm by arm.  A register index out of 0..15 panics at the  *)
(* first get or set that uses it.                                          *)

\* Mutant of execute_Sys: the opcode is ignored, as modern interpreters do
execute_Sys_ignored(c) == Done(c)

execute_Sys(c) == Panic(c)

execute_Cls(c) == Panic(c)

\* Mutant of execute_Ret: the popped address is not masked
execute_Ret_unmasked(c) ==
    IF c.stack # << >>
    THEN LET addr == c.stack[Len(c.stack)]
         IN  Done([c EXCEPT !.stack = SubSeq(c.stack, 1, Len(c.stack) - 1),
                            !.program_counter = addr])
    ELSE Done(c)

\* Mutant of execute_Ret: an empty stack returns to address 0
execute_Ret_resets(c) ==
    IF c.stack # << >>
    THEN LET addr == c.stack[Len(c.stack)]
         IN  Done([c EXCEPT !.stack = SubSeq(c.stack, 1, Len(c.stack) - 1),
                            !.program_counter = addr % 4096])
    ELSE Done([c EXCEPT !.program_counter = 0])

execute_Ret(c) ==
    IF c.stack # << >>
    THEN LET addr == c.stack[Len(c.stack)]
         IN  Done([c EXCEPT !.stack = SubSeq(c.stack, 1, Len(c.stack) - 1),
                            !.program_counter = addr % 4096])
    ELSE Done(c)

execute_Jp(c, addr) == Done([c EXCEPT !.program_counter = addr])

\* Mutant of execute_Call: the stack of the original hardware, 16 entries deep
execute_Call_bounded(c, addr) ==
    IF Len(c.stack) < 16
    THEN Done([c EXCEPT !.stack = Append(c.stack, c.program_counter),
                        !.program_counter = addr % 4096])
    ELSE Done([c EXCEPT !.program_counter = addr % 4096])

\* Mutant of execute_Call: the address called is pushed, not the one left
execute_Call_pushes_target(c, addr) ==
    Done([c EXCEPT !.stack = Append(c.stack, addr % 4096),
                   !.program_counter = addr % 4096])

execute_Call(c, addr) ==
    Done([c EXCEPT !.stack = Append(c.stack, c.program_counter),
                   !.program_counter = addr % 4096])

\* self.program_counter += 2: past u16::MAX a build with overflow checks
\* panics and one without wraps
Skip(c, checks) ==
    IF c.program_counter + 2 < U16
    THEN Done([c EXCEPT !.program_counter = c.program_counter + 2])
    ELSE IF checks
         THEN Panic(c)
         ELSE Done([c EXCEPT !.program_counter = (c.program_counter + 2) % U16])

execute_SeByte(c, vx, value, checks) ==
    IF ~InBounds(vx) THEN Panic(c)
    ELSE IF get(c.register, vx) = value THEN Skip(c, checks) ELSE Done(c)

\* Mutant of execute_SneByte: the test of SeByte
execute_SneByte_eq(c, vx, value, checks) ==
    IF ~InBounds(vx) THEN Panic(c)
    ELSE IF get(c.register, vx) = value THEN Skip(c, checks) ELSE Done(c)

execute_SneByte(c, vx, value, checks) ==
    IF ~InBounds(vx) THEN Panic(c)
    ELSE IF get(c.register, vx) # value THEN Skip(c, checks) ELSE Done(c)

execute_Se(c, vx, vy, checks) ==
    IF ~InBounds(vx) \/ ~InBounds(vy) THEN Panic(c)
    ELSE IF get(c.register, vx) = get(c.register, vy)
         THEN Skip(c, checks) ELSE Done(c)

execute_Sne(c, vx, vy, checks) ==
    IF ~InBounds(vx) \/ ~InBounds(vy) THEN Panic(c)
    ELSE IF get(c.register, vx) # get(c.register, vy)
         THEN Skip(c, checks) ELSE Done(c)

\* Mutant of execute_LdByte: the bits Vx held stay set
execute_LdByte_keeps(c, vx, value) ==
    IF ~InBounds(vx) THEN Panic(c)
    ELSE Done(SetReg(c, vx, BitOr(get(c.register, vx), value)))

\* Mutant of execute_LdByte: the index is reduced to its low four bits
execute_LdByte_wraps(c, vx, value) == Done(SetReg(c, vx % RegisterCount, value))

execute_LdByte(c, vx, value) ==
    IF ~InBounds(vx) THEN Panic(c) ELSE Done(SetReg(c, vx, value))

\* Mutant of execute_AddByte: the carry is written to VF, as Add does
execute_AddByte_carry(c, vx, value) ==
    IF ~InBounds(vx) THEN Panic(c)
    ELSE LET value_x == get(c.register, vx)
             overflow == IF value_x + value > 255 THEN 1 ELSE 0
         IN  Done(SetReg(SetReg(c, 15, overflow), vx, (value_x + value) % U8))

execute_AddByte(c, vx, value) ==
    IF ~InBounds(vx) THEN Panic(c)
    ELSE LET value_x == get(c.register, vx)
             sum == (value_x + value) % U8
         IN  Done(SetReg(c, vx, sum))

\* Mutant of execute_Ld: the arm steps the program counter to the next
\* instruction, as a core that advances by itself would
execute_Ld_advances(c, vx, vy) ==
    IF ~InBounds(vy) \/ ~InBounds(vx) THEN Panic(c)
    ELSE LET value == get(c.register, vy)
         IN  Done([SetReg(c, vx, value) EXCEPT
                      !.program_counter = c.program_counter + 2])

execute_Ld(c, vx, vy) ==
    IF ~InBounds(vy) \/ ~InBounds(vx) THEN Panic(c)
    ELSE LET value == get(c.register, vy)
         IN  Done(SetReg(c, vx, value))

execute_Or(c, vx, vy) ==
    IF ~InBounds(vx) \/ ~InBounds(vy) THEN Panic(c)
    ELSE LET value_x == get(c.register, vx)
             value_y == get(c.register, vy)
         IN  Done(SetReg(c, vx, BitOr(value_x, value_y)))

execute_And(c, vx, vy) ==
    IF ~InBounds(vx) \/ ~InBounds(vy) THEN Panic(c)
    ELSE LET value_x == get(c.register, vx)
             value_y == get(c.register, vy)
         IN  Done(SetReg(c, vx, BitAnd(value_x, value_y)))

\* Mutant of execute_Xor: VF is reset, as some interpreters do
execute_Xor_resets_flag(c, vx, vy) ==
    IF ~InBounds(vx) \/ ~InBounds(vy) THEN Panic(c)
    ELSE LET value_x == get(c.register, vx)
             value_y == get(c.register, vy)
         IN  Done(SetReg(SetReg(c, vx, BitXor(value_x, value_y)), 15, 0))

execute_Xor(c, vx, vy) ==
    IF ~InBounds(vx) \/ ~InBounds(vy) THEN Panic(c)
    ELSE LET value_x == get(c.register, vx)
             value_y == get(c.register, vy)
         IN  Done(SetReg(c, vx, BitXor(value_x, value_y)))

\* Mutant of execute_Add: the sum is truncated to u8 before the carry test
execute_Add_narrow(c, vx, vy) ==
    IF ~InBounds(vx) \/ ~InBounds(vy) THEN Panic(c)
    ELSE LET value_x == get(c.register, vx)
             value_y == get(c.register, vy)
             sum == (value_x + value_y) % U8
             overflow == IF sum > 255 THEN 1 ELSE 0
         IN  Done(SetReg(SetReg(c, 15, overflow), vx, sum % U8))

\* Mutant of execute_Add: the operands are read again after VF is written
execute_Add_rereads(c, vx, vy) ==
    IF ~InBounds(vx) \/ ~InBounds(vy) THEN Panic(c)
    ELSE LET value_x == get(c.register, vx)
             value_y == get(c.register, vy)
             overflow == IF value_x + value_y > 255 THEN 1 ELSE 0
             flagged == SetReg(c, 15, overflow)
             sum == get(flagged.register, vx) + get(flagged.register, vy)
         IN  Done(SetReg(flagged, vx, sum % U8))

execute_Add(c, vx, vy) ==
    IF ~InBounds(vx) \/ ~InBounds(vy) THEN Panic(c)
    ELSE LET value_x == get(c.register, vx)
             value_y == get(c.register, vy)
             sum == value_x + value_y
             overflow == IF sum > 255 THEN 1 ELSE 0
         IN  Done(SetReg(SetReg(c, 15, overflow), vx, sum % U8))

\* Mutant of execute_Sub: no borrow also when the operands are equal
execute_Sub_ge(c, vx, vy) ==
    IF ~InBounds(vx) \/ ~InBounds(vy) THEN Panic(c)
    ELSE LET value_x == get(c.register, vx)
             value_y == get(c.register, vy)
             no_borrow == IF value_x >= value_y THEN 1 ELSE 0
         IN  Done(SetReg(SetReg(c, 15, no_borrow), vx,
                         LowByteI16(value_x - value_y)))

\* Mutant of execute_Sub: the difference stops at 0 instead of wrapping
execute_Sub_saturates(c, vx, vy) ==
    IF ~InBounds(vx) \/ ~InBounds(vy) THEN Panic(c)
    ELSE LET value_x == get(c.register, vx)
             value_y == get(c.register, vy)
             no_borrow == IF value_x > value_y THEN 1 ELSE 0
         IN  Done(SetReg(SetReg(c, 15, no_borrow), vx,
                         IF value_x > value_y THEN value_x - value_y ELSE 0))

execute_Sub(c, vx, vy) ==
    IF ~InBounds(vx) \/ ~InBounds(vy) THEN Panic(c)
    ELSE LET value_x == get(c.register, vx)
             value_y == get(c.register, vy)
             no_borrow == IF value_x > value_y THEN 1 ELSE 0
         IN  Done(SetReg(SetReg(c, 15, no_borrow), vx,
                         LowByteI16(value_x - value_y)))

\* Mutant of execute_Shr: the flag is taken from the shifted value
execute_Shr_late_flag(c, vx) ==
    IF ~InBounds(vx) THEN Panic(c)
    ELSE LET value_x == get(c.register, vx)
             least_sig_bit == BitAnd(value_x \div 2, 1)
         IN  Done(SetReg(SetReg(c, 15, least_sig_bit), vx, value_x \div 2))

execute_Shr(c, vx) ==
    IF ~InBounds(vx) THEN Panic(c)
    ELSE LET value_x == get(c.register, vx)
             least_sig_bit == BitAnd(value_x, 1)
         IN  Done(SetReg(SetReg(c, 15, least_sig_bit), vx, value_x \div 2))

\* Mutant of execute_Subn: Sub's difference, the operands not swapped
execute_Subn_unswapped(c, vx, vy) ==
    IF ~InBounds(vx) \/ ~InBounds(vy) THEN Panic(c)
    ELSE LET value_x == get(c.register, vx)
             value_y == get(c.register, vy)
             no_borrow == IF value_y > value_x THEN 1 ELSE 0
         IN  Done(SetReg(SetReg(c, 15, no_borrow), vx,
                         LowByteI16(value_x - value_y)))

execute_Subn(c, vx, vy) ==
    IF ~InBounds(vx) \/ ~InBounds(vy) THEN Panic(c)
    ELSE LET value_x == get(c.register, vx)
             value_y == get(c.register, vy)
             no_borrow == IF value_y > value_x THEN 1 ELSE 0
         IN  Done(SetReg(SetReg(c, 15, no_borrow), vx,
                         LowByteI16(value_y - value_x)))

\* Mutant of execute_Shl: the masked bit is not shifted down to bit 0
execute_Shl_unshifted_flag(c, vx) ==
    IF ~InBounds(vx) THEN Panic(c)
    ELSE LET value_x == get(c.register, vx)
             most_sig_bit == BitAnd(value_x, 128)
         IN  Done(SetReg(SetReg(c, 15, most_sig_bit), vx, (value_x * 2) % U8))

\* Mutant of execute_Shl: a rotation, the bit shifted out re-enters as bit 0
execute_Shl_rotates(c, vx) ==
    IF ~InBounds(vx) THEN Panic(c)
    ELSE LET value_x == get(c.register, vx)
             most_sig_bit == BitAnd(value_x, 128) \div 128
         IN  Done(SetReg(SetReg(c, 15, most_sig_bit), vx,
                         ((value_x * 2) % U8) + most_sig_bit))

\* value_x << 1 on a u8 drops the bit shifted out; it does not panic
execute_Shl(c, vx) ==
    IF ~InBounds(vx) THEN Panic(c)
    ELSE LET value_x == get(c.register, vx)
             most_sig_bit == BitAnd(value_x, 128) \div 128
         IN  Done(SetReg(SetReg(c, 15, most_sig_bit), vx, (value_x * 2) % U8))

execute_Ldi(c, value) == Done([c EXCEPT !.register.i = value])

\* self.register.get(0) as u16 + addr: a u16 sum, checked like Skip's
\* Mutant of execute_JpV0: the sum is masked to 12 bits, as Call's address is
execute_JpV0_masked(c, addr, checks) ==
    Done([c EXCEPT !.program_counter = (get(c.register, 0) + addr) % 4096])

execute_JpV0(c, addr, checks) ==
    LET sum == get(c.register, 0) + addr
    IN  IF sum < U16 THEN Done([c EXCEPT !.program_counter = sum])
        ELSE IF checks THEN Panic(c)
             ELSE Done([c EXCEPT !.program_counter = sum % U16])

\* random: the byte rand::thread_rng().gen::<u8>() returned
\* Mutant of execute_Rnd: the drawn byte is stored unmasked
execute_Rnd_unmasked(c, vx, mask, random) ==
    IF ~InBounds(vx) THEN Panic(c) ELSE Done(SetReg(c, vx, random))

execute_Rnd(c, vx, mask, random) ==
    IF ~InBounds(vx) THEN Panic(c)
    ELSE Done(SetReg(c, vx, BitAnd(random, mask)))

\* Mutant of execute_LdVxDelay: reading the delay timer ticks it
execute_LdVxDelay_ticks(c, vx) ==
    IF ~InBounds(vx) THEN Panic(c)
    ELSE LET delay == c.register.delay
             ticked == IF delay > 0 THEN delay - 1 ELSE 0
         IN  Done([SetReg(c, vx, delay) EXCEPT !.register.delay = ticked])

execute_LdVxDelay(c, vx) ==
    IF ~InBounds(vx) THEN Panic(c)
    ELSE LET delay == c.register.delay
         IN  Done(SetReg(c, vx, delay))

execute_LdDelayVx(c, vx) ==
    IF ~InBounds(vx) THEN Panic(c)
    ELSE Done([c EXCEPT !.register.delay = get(c.register, vx)])

\* Chip::execute of chip.rs
execute(c, ins, random, checks) ==
    CASE ins.op = "Sys" -> execute_Sys(c)
      [] ins.op = "Cls" -> execute_Cls(c)
      [] ins.op = "Ret" -> execute_Ret(c)
      [] ins.op = "Jp" -> execute_Jp(c, ins.addr)
      [] ins.op = "Call" -> execute_Call(c, ins.addr)
      [] ins.op = "SeByte" -> execute_SeByte(c, ins.vx, ins.value, checks)
      [] ins.op = "SneByte" -> execute_SneByte(c, ins.vx, ins.value, checks)
      [] ins.op = "Se" -> execute_Se(c, ins.vx, ins.vy, checks)
      [] ins.op = "Sne" -> execute_Sne(c, ins.vx, ins.vy, checks)
      [] ins.op = "LdByte" -> execute_LdByte(c, ins.vx, ins.value)
      [] ins.op = "AddByte" -> execute_AddByte(c, ins.vx, ins.value)
      [] ins.op = "Ld" -> execute_Ld(c, ins.vx, ins.vy)
      [] ins.op = "Or" -> execute_Or(c, ins.vx, ins.vy)
      [] ins.op = "And" -> execute_And(c, ins.vx, ins.vy)
      [] ins.op = "Xor" -> execute_Xor(c, ins.vx, ins.vy)
      [] ins.op = "Add" -> execute_Add(c, ins.vx, ins.vy)
      [] ins.op = "Sub" -> execute_Sub(c, ins.vx, ins.vy)
      [] ins.op = "Shr" -> execute_Shr(c, ins.vx)
      [] ins.op = "Subn" -> execute_Subn(c, ins.vx, ins.vy)
      [] ins.op = "Shl" -> execute_Shl(c, ins.vx)
      [] ins.op = "Ldi" -> execute_Ldi(c, ins.value)
      [] ins.op = "JpV0" -> execute_JpV0(c, ins.addr, checks)
      [] ins.op = "Rnd" -> execute_Rnd(c, ins.vx, ins.mask, random)
      [] ins.op = "LdVxDelay" -> execute_LdVxDelay(c, ins.vx)
      [] ins.op = "LdDelayVx" -> execute_LdDelayVx(c, ins.vx)

\* Chip::execute of main.rs: the same register arms, and _ => () for Unknown
main_execute(c, ins, random) ==
    CASE ins.op = "LdByte" -> execute_LdByte(c, ins.vx, ins.value)
      [] ins.op = "AddByte" -> execute_AddByte(c, ins.vx, ins.value)
      [] ins.op = "Ld" -> execute_Ld(c, ins.vx, ins.vy)
      [] ins.op = "Or" -> execute_Or(c, ins.vx, ins.vy)
      [] ins.op = "And" -> execute_And(c, ins.vx, ins.vy)
      [] ins.op = "Xor" -> execute_Xor(c, ins.vx, ins.vy)
      [] ins.op = "Add" -> execute_Add(c, ins.vx, ins.vy)
      [] ins.op = "Sub" -> execute_Sub(c, ins.vx, ins.vy)
      [] ins.op = "Shr" -> execute_Shr(c, ins.vx)
      [] ins.op = "Subn" -> execute_Subn(c, ins.vx, ins.vy)
      [] ins.op = "Shl" -> execute_Shl(c, ins.vx)
      [] ins.op = "Rnd" -> execute_Rnd(c, ins.vx, ins.mask, random)
      [] OTHER -> Done(c)

-----------------------------------------------------------------------------
(* The inputs the model draws *)

\* execute calls per behaviour
MaxSteps == 2

\* register indices an instruction names as vx: a plain register and VF
Regs == {0, 15}

\* register indices an instruction names as vy: vx's, and another plain register
RegsY == {0, 1, 15}

\* register contents a Chip is seeded with
SeedBytes == {5, 150, 255}

\* contents VF is seeded with
FlagSeeds == {0, 150}

\* kk operands
Immediates == {0, 10, 255}

\* Rnd masks
Masks == {1, 15, 255}

\* bytes the generator returns
RandomBytes == {170, 255}

\* nnn operands
Addrs == {512, 4095}

\* the slice handed to with_register_values: V0, V1 and VF set
Seed(a, b, f) ==
    [k \in 1 .. RegisterCount |->
        IF k = 1 THEN a ELSE IF k = 2 THEN b
        ELSE IF k = RegisterCount THEN f ELSE 0]

Seeds == { Seed(a, b, f) : a \in SeedBytes, b \in SeedBytes, f \in FlagSeeds }

\* the variants of each build's Instruction enum
Variants(t) ==
    IF t = "lib"
    THEN {"Sys", "Cls", "Ret", "Jp", "Call", "SeByte", "SneByte", "Se", "Sne",
          "LdByte", "AddByte", "Ld", "Or", "And", "Xor", "Add", "Sub", "Shr",
          "Subn", "Shl", "Ldi", "JpV0", "Rnd", "LdVxDelay", "LdDelayVx"}
    ELSE {"LdByte", "AddByte", "Ld", "Or", "And", "Xor", "Add", "Sub", "Shr",
          "Subn", "Shl", "Rnd", "Unknown"}

-----------------------------------------------------------------------------
(* The machine: a Chip is constructed, then execute is called on it *)

Init ==
    /\ target \in {"lib", "bin"}
    /\ \E vals \in Seeds :
          chip = IF target = "lib" THEN with_register_values(vals)
                 ELSE main_with_register_values(vals)
    /\ status = "ok"
    /\ hist = << >>
    /\ op = 0
    /\ decoded = NotCalled

\* The calls of rand::thread_rng().gen::<u8>() one execute call makes: the Rnd
\* arm's one, in both builds
Draws(ins) == IF ins.op = "Rnd" THEN 1 ELSE 0

\* chip.execute(&ins), the call recorded after the calls of kept
Run(ins, kept) ==
    /\ status = "ok"
    /\ ins.op \in Variants(target)
    /\ \E random \in (IF Draws(ins) = 1 THEN RandomBytes ELSE {0}),
          checks \in (IF ins.op \in {"SeByte", "SneByte", "Se", "Sne", "JpV0"}
                      THEN BOOLEAN ELSE {TRUE}) :
          LET r == IF target = "lib" THEN execute(chip, ins, random, checks)
                   ELSE main_execute(chip, ins, random)
          IN  /\ chip' = r.chip
              /\ status' = r.outcome
              /\ hist' = Append(kept, [ins |-> ins, random |-> random,
                                       draws |-> Draws(ins), before |-> chip])
    /\ UNCHANGED <<target, op, decoded>>

\* one call chip.execute(&ins), added to the calls made so far
Execute(ins) ==
    /\ Len(hist) < MaxSteps
    /\ Run(ins, hist)

ExecSys == \E addr \in Addrs : Execute(Sys(addr))

ExecCls == Execute(Cls)

ExecRet == Execute(Ret)

ExecJp == \E addr \in Addrs : Execute(Jp(addr))

ExecCall == \E addr \in Addrs : Execute(Call(addr))

ExecSeByte == \E vx \in Regs, value \in Immediates : Execute(SeByte(vx, value))

ExecSneByte == \E vx \in Regs, value \in Immediates : Execute(SneByte(vx, value))

ExecSe == \E vx \in Regs, vy \in RegsY : Execute(Se(vx, vy))

ExecSne == \E vx \in Regs, vy \in RegsY : Execute(Sne(vx, vy))

ExecLdByte == \E vx \in Regs, value \in Immediates : Execute(LdByte(vx, value))

ExecAddByte == \E vx \in Regs, value \in Immediates : Execute(AddByte(vx, value))

ExecLd == \E vx \in Regs, vy \in RegsY : Execute(Ld(vx, vy))

ExecOr == \E vx \in Regs, vy \in RegsY : Execute(Or(vx, vy))

ExecAnd == \E vx \in Regs, vy \in RegsY : Execute(And(vx, vy))

ExecXor == \E vx \in Regs, vy \in RegsY : Execute(Xor(vx, vy))

ExecAdd == \E vx \in Regs, vy \in RegsY : Execute(Add(vx, vy))

ExecSub == \E vx \in Regs, vy \in RegsY : Execute(Sub(vx, vy))

ExecShr == \E vx \in Regs : Execute(Shr(vx))

ExecSubn == \E vx \in Regs, vy \in RegsY : Execute(Subn(vx, vy))

ExecShl == \E vx \in Regs : Execute(Shl(vx))

ExecLdi == \E value \in Addrs : Execute(Ldi(value))

ExecJpV0 == \E addr \in Addrs : Execute(JpV0(addr))

ExecRnd == \E vx \in Regs, mask \in Masks : Execute(Rnd(vx, mask))

ExecLdVxDelay == \E vx \in Regs : Execute(LdVxDelay(vx))

ExecLdDelayVx == \E vx \in Regs : Execute(LdDelayVx(vx))

ExecUnknown == Execute(Unknown)

\* The control-flow instructions alone, on the library's Chip, in longer runs
MaxFlow == 3

InitFlow ==
    /\ target = "lib"
    /\ \E vals \in Seeds : chip = with_register_values(vals)
    /\ status = "ok"
    /\ hist = << >>
    /\ op = 0
    /\ decoded = NotCalled

ExecuteFlow(ins) ==
    /\ Len(hist) < MaxFlow
    /\ Run(ins, hist)

FlowRet == ExecuteFlow(Ret)

FlowJp == \E addr \in Addrs : ExecuteFlow(Jp(addr))

FlowCall == \E addr \in Addrs : ExecuteFlow(Call(addr))

FlowJpV0 == \E addr \in Addrs : ExecuteFlow(JpV0(addr))

FlowSeByte == \E value \in Immediates \cup SeedBytes : ExecuteFlow(SeByte(0, value))

NextFlow == FlowRet \/ FlowJp \/ FlowCall \/ FlowJpV0 \/ FlowSeByte

SpecFlow == InitFlow /\ [][NextFlow]_vars

\* Runs of any length on a fresh Chip of the library: skips that are taken,
\* and a jump to the last address. Only the latest call is remembered.
InitSkip ==
    /\ target = "lib"
    /\ chip = Chip_new
    /\ status = "ok"
    /\ hist = << >>
    /\ op = 0
    /\ decoded = NotCalled

ExecuteLatest(ins) == Run(ins, << >>)

SkipTaken == ExecuteLatest(SeByte(0, 0))

JumpLast == ExecuteLatest(Jp(4095))

NextSkip == SkipTaken \/ JumpLast

SpecSkip == InitSkip /\ [][NextSkip]_vars

\* Calls whose index may be out of range: execute with a register index of 16
\* or more, and get and set of chip.memory with a key of 4096 or more
MaxFault == 2

IndexX == {0, 16}

IndexY == {1, 31}

Keys == {0, 4095, 4096, 8191}

FaultInstructions ==
    {Call(512)}
    \cup { SeByte(vx, 5) : vx \in IndexX } \cup { SneByte(vx, 5) : vx \in IndexX }
    \cup { LdByte(vx, 10) : vx \in IndexX } \cup { AddByte(vx, 10) : vx \in IndexX }
    \cup { Shr(vx) : vx \in IndexX } \cup { Shl(vx) : vx \in IndexX }
    \cup { Rnd(vx, 15) : vx \in IndexX }
    \cup { LdVxDelay(vx) : vx \in IndexX } \cup { LdDelayVx(vx) : vx \in IndexX }
    \cup UNION { {Se(vx, vy), Sne(vx, vy), Ld(vx, vy), Or(vx, vy), And(vx, vy),
                  Xor(vx, vy), Add(vx, vy), Sub(vx, vy), Subn(vx, vy)} :
                 vx \in IndexX, vy \in IndexY }

ExecuteFault ==
    /\ Len(hist) < MaxFault
    /\ \E ins \in FaultInstructions : Run(ins, hist)

\* chip.memory.get(key): the call is recorded with the byte it returned
MemoryGet ==
    /\ status = "ok"
    /\ target = "lib"
    /\ Len(hist) < MaxFault
    /\ \E key \in Keys :
          /\ status' = IF Memory_InBounds(key) THEN "ok" ELSE "panic"
          /\ hist' = Append(hist,
                 [ins |-> [op |-> "Memory::get", key |-> key,
                           returned |-> IF Memory_InBounds(key)
                                        THEN Memory_get(chip.memory, key) ELSE 0],
                  random |-> 0, draws |-> 0, before |-> chip])
    /\ UNCHANGED <<target, chip, op, decoded>>

\* chip.memory.set(key, value)
MemorySet ==
    /\ status = "ok"
    /\ target = "lib"
    /\ Len(hist) < MaxFault
    /\ \E key \in Keys, value \in {0, 7} :
          /\ IF Memory_InBounds(key)
             THEN /\ chip' = [chip EXCEPT !.memory = Memory_set(chip.memory, key, value)]
                  /\ status' = "ok"
             ELSE /\ chip' = chip
                  /\ status' = "panic"
          /\ hist' = Append(hist,
                 [ins |-> [op |-> "Memory::set", key |-> key, value |-> value],
                  random |-> 0, draws |-> 0, before |-> chip])
    /\ UNCHANGED <<target, op, decoded>>

NextFault == ExecuteFault \/ MemoryGet \/ MemorySet

SpecFault == Init /\ [][NextFault]_vars

\* The two jumps, with every byte in V0
JumpAddrs == {0, 1, 255, 256, 512, 3841, 4095}

InitJump ==
    /\ target = "lib"
    /\ \E v0 \in Byte : chip = with_register_values(<<v0>>)
    /\ status = "ok"
    /\ hist = << >>
    /\ op = 0
    /\ decoded = NotCalled

JumpJp == \E addr \in JumpAddrs : Execute(Jp(addr))

JumpJpV0 == \E addr \in JumpAddrs : Execute(JpV0(addr))

NextJump == JumpJp \/ JumpJpV0

SpecJump == InitJump /\ [][NextJump]_vars

\* The two shifts, in pairs, on every byte
ShiftRegs == {0, 14}

\* the byte v in V0 and VE, f in VF
ShiftSeed(v, f) ==
    [k \in 1 .. RegisterCount |->
        IF k \in {1, 15} THEN v ELSE IF k = RegisterCount THEN f ELSE 0]

InitShift ==
    /\ target \in {"lib", "bin"}
    /\ \E v \in Byte, f \in FlagSeeds :
          chip = IF target = "lib" THEN with_register_values(ShiftSeed(v, f))
                 ELSE main_with_register_values(ShiftSeed(v, f))
    /\ status = "ok"
    /\ hist = << >>
    /\ op = 0
    /\ decoded = NotCalled

ShiftShr == \E vx \in ShiftRegs : Execute(Shr(vx))

ShiftShl == \E vx \in ShiftRegs : Execute(Shl(vx))

NextShift == ShiftShr \/ ShiftShl

SpecShift == InitShift /\ [][NextShift]_vars

\* Add(0, 1) and Sub(0, 1), on every pair of bytes in V0 and V1
InitSum ==
    /\ target = "lib"
    /\ \E a \in Byte, b \in Byte : chip = with_register_values(<<a, b>>)
    /\ status = "ok"
    /\ hist = << >>
    /\ op = 0
    /\ decoded = NotCalled

SumAdd == Execute(Add(0, 1))

SumSub == Execute(Sub(0, 1))

NextSum == SumAdd \/ SumSub

SpecSum == InitSum /\ [][NextSum]_vars

\* Nested calls: after at most one jump, Calls to 512, 513, ... and then Rets
MaxDepth == 18

\* the calls made so far that were op
Made(name) == { n \in 1 .. Len(hist) : hist[n].ins.op = name }

NestJump ==
    /\ hist = << >>
    /\ \E ins \in {Jp(512), JpV0(4095)} : Run(ins, hist)

NestCall ==
    /\ Made("Ret") = {}
    /\ Cardinality(Made("Call")) < MaxDepth
    /\ Run(Call(512 + Cardinality(Made("Call"))), hist)

NestRet ==
    /\ Cardinality(Made("Ret")) < Cardinality(Made("Call"))
    /\ Run(Ret, hist)

NextNest == NestJump \/ NestCall \/ NestRet

SpecNest == InitFlow /\ [][NextNest]_vars

\* every register index of the machine
AllRegs == 0 .. (RegisterCount - 1)

\* LdByte alone, on every register of the machine
LoadByte == \E vx \in AllRegs, value \in Immediates : Execute(LdByte(vx, value))

NextLoad == LoadByte

SpecLoad == Init /\ [][NextLoad]_vars

Next ==
    \/ ExecSys \/ ExecCls \/ ExecRet \/ ExecJp \/ ExecCall
    \/ ExecSeByte \/ ExecSneByte \/ ExecSe \/ ExecSne
    \/ ExecLdByte \/ ExecAddByte \/ ExecLd
    \/ ExecOr \/ ExecAnd \/ ExecXor
    \/ ExecAdd \/ ExecSub \/ ExecShr \/ ExecSubn \/ ExecShl
    \/ ExecLdi \/ ExecJpV0 \/ ExecRnd
    \/ ExecLdVxDelay \/ ExecLdDelayVx \/ ExecUnknown

Spec == Init /\ [][Next]_vars

-----------------------------------------------------------------------------
(* The decoder: one opcode is handed to Instruction::parse *)

InitDecode ==
    /\ target \in {"lib", "bin"}
    /\ chip = IF target = "lib" THEN Chip_new ELSE main_with_register_values(<< >>)
    /\ status = "ok"
    /\ hist = << >>
    /\ op \in 0 .. (U16 - 1)
    /\ decoded = NotCalled

\* Instruction::parse(op)
Parse ==
    /\ decoded = NotCalled
    /\ decoded' = IF target = "lib" THEN parse(op) ELSE main_parse(op)
    /\ UNCHANGED <<target, chip, status, hist, op>>

NextDecode == Parse

SpecDecode == InitDecode /\ [][NextDecode]_vars

-----------------------------------------------------------------------------
(* What the claims speak of *)

\* an execute call has been made
Executed == Len(hist) > 0

\* the latest execute call, and the Chip before it
Last == hist[Len(hist)]

Pre == Last.before

\* register k of Chip c
V(c, k) == c.register.values[k]

\* the registers of c and d agree outside the set ks
SameRegistersBut(c, d, ks) ==
    \A k \in 0 .. (RegisterCount - 1) : k \notin ks => V(c, k) = V(d, k)

\* The decode table of the specification, section 4.1
InTable(w) ==
    LET n == Nibbles(w)
    IN  \/ n[1] \in {0, 1, 2, 3, 4, 6, 7, 10, 11, 12}
        \/ n[1] \in {5, 9} /\ n[4] = 0
        \/ n[1] = 8 /\ n[4] \in {0, 1, 2, 3, 4, 5, 6, 7, 14}
        \/ n[1] = 15 /\ w % 256 \in {7, 21}

DecodeTable(w) ==
    LET n == Nibbles(w)
        x == n[2]
        y == n[3]
        kk == w % 256
        nnn == w % 4096
    IN  CASE w = 224 -> Cls
          [] w = 238 -> Ret
          [] n[1] = 0 /\ w \notin {224, 238} -> Sys(nnn)
          [] n[1] = 1 -> Jp(nnn)
          [] n[1] = 2 -> Call(nnn)
          [] n[1] = 3 -> SeByte(x, kk)
          [] n[1] = 4 -> SneByte(x, kk)
          [] n[1] = 5 /\ n[4] = 0 -> Se(x, y)
          [] n[1] = 6 -> LdByte(x, kk)
          [] n[1] = 7 -> AddByte(x, kk)
          [] n[1] = 8 /\ n[4] = 0 -> Ld(x, y)
          [] n[1] = 8 /\ n[4] = 1 -> Or(x, y)
          [] n[1] = 8 /\ n[4] = 2 -> And(x, y)
          [] n[1] = 8 /\ n[4] = 3 -> Xor(x, y)
          [] n[1] = 8 /\ n[4] = 4 -> Add(x, y)
          [] n[1] = 8 /\ n[4] = 5 -> Sub(x, y)
          [] n[1] = 8 /\ n[4] = 6 -> Shr(x)
          [] n[1] = 8 /\ n[4] = 7 -> Subn(x, y)
          [] n[1] = 8 /\ n[4] = 14 -> Shl(x)
          [] n[1] = 9 /\ n[4] = 0 -> Sne(x, y)
          [] n[1] = 10 -> Ldi(nnn)
          [] n[1] = 11 -> JpV0(nnn)
          [] n[1] = 12 -> Rnd(x, kk)
          [] n[1] = 15 /\ kk = 7 -> LdVxDelay(x)
          [] n[1] = 15 /\ kk = 21 -> LdDelayVx(x)
          [] OTHER -> Unknown

\* An opcode 6xkk or 8xyN is parsed, and what parse returned is executed
ArithOps == (6 * 4096 .. (7 * 4096) - 1) \cup (8 * 4096 .. (9 * 4096) - 1)

InitArith ==
    /\ target \in {"lib", "bin"}
    /\ chip = IF target = "lib" THEN with_register_values(<<5, 150>>)
              ELSE main_with_register_values(<<5, 150>>)
    /\ status = "ok"
    /\ hist = << >>
    /\ op \in ArithOps
    /\ decoded = NotCalled

\* chip.execute(&Instruction::parse(op))
ExecuteDecoded ==
    /\ decoded.outcome = "returned"
    /\ Execute(decoded.value)

NextArith == Parse \/ ExecuteDecoded

SpecArith == InitArith /\ [][NextArith]_vars


-----------------------------------------------------------------------------
(* C1 *)

\* C1: every opcode of the decode table (6xkk, 7xkk, 8xy0-8xy7, 8xyE, Cxkk,
\* 1nnn, 2nnn, Bnnn, 00EE, 3xkk, 4xkk, 5xy0, 9xy0, Annn, Fx07, Fx15, 0nnn,
\* 00E0) is decoded by Instruction::parse to the variant and the fields the
\* table lists.
C1_DecodeTable ==
    (decoded # NotCalled /\ InTable(op)) => decoded = Returned(DecodeTable(op))

-----------------------------------------------------------------------------
(* C2 *)

\* C2: Instruction::parse returns a value for every 16-bit opcode, and for an
\* opcode that matches no pattern of the table the value is Unknown.
C2_Total ==
    decoded # NotCalled =>
        /\ decoded.outcome = "returned"
        /\ ~InTable(op) => decoded = Returned(Unknown)

-----------------------------------------------------------------------------
(* C3 *)

\* C3 as claimed: executing Sys, Cls or Unknown ends in an outcome other than
\* a successful execution and leaves the whole Chip as it was.
C3_AsClaimed ==
    (Executed /\ Last.ins.op \in {"Sys", "Cls", "Unknown"}) =>
        /\ status # "ok"
        /\ chip = Pre

\* C3, amended: executing Sys or Cls panics (unimplemented!), which no
\* successful execution does, and leaves registers, memory, stack, index
\* register and program counter as they were; executing Unknown (main.rs)
\* also leaves the whole Chip as it was, but returns normally.
C3_Unimplemented ==
    Executed =>
        /\ Last.ins.op \in {"Sys", "Cls"} => (status = "panic" /\ chip = Pre)
        /\ Last.ins.op = "Unknown" => (status = "ok" /\ chip = Pre)

\* Unknown is executed on a Chip whose registers an Add has just changed
C3_Witness ==
    /\ Len(hist) = 2
    /\ hist[1].ins.op = "Add"
    /\ Last.ins.op = "Unknown"
    /\ Pre # hist[1].before

-----------------------------------------------------------------------------
(* C4 *)

\* C4: after Add(x, y) with x # 0xF, Vx = (Vx + Vy) mod 256 and VF = 1 if
\* Vx + Vy > 255 else 0, for the values Vx, Vy held before (x = y included),
\* and no register but Vx and VF has changed.
C4_Add ==
    (Executed /\ Last.ins.op = "Add" /\ Last.ins.vx # 15) =>
        LET x == Last.ins.vx
            y == Last.ins.vy
            sum == V(Pre, x) + V(Pre, y)
        IN  /\ status = "ok"
            /\ V(chip, x) = sum % 256
            /\ V(chip, 15) = IF sum > 255 THEN 1 ELSE 0
            /\ SameRegistersBut(chip, Pre, {x, 15})

\* Add(0, 0) doubles 150: the sum passes 255
C4_Witness ==
    /\ Executed
    /\ Last.ins = Add(0, 0)
    /\ V(Pre, 0) = 150
    /\ V(chip, 0) = 44
    /\ V(chip, 15) = 1

-----------------------------------------------------------------------------
(* C5 *)

\* C5: after Add(x, y), for every x and y and x = 0xF included, register 0xF
\* holds the carry: 1 if the sum of the values held before exceeds 255,
\* else 0.
C5_CarryLast ==
    (Executed /\ Last.ins.op = "Add") =>
        V(chip, 15) =
            IF V(Pre, Last.ins.vx) + V(Pre, Last.ins.vy) > 255 THEN 1 ELSE 0

-----------------------------------------------------------------------------
(* C6 *)

\* C6: after Sub(x, y) with x # 0xF, VF = 1 if Vx > Vy else 0 (0 when they
\* are equal) and Vx = (Vx - Vy) mod 256, that is 256 + (Vx - Vy) when the
\* difference is negative, for the values held before.
C6_Sub ==
    (Executed /\ Last.ins.op = "Sub" /\ Last.ins.vx # 15) =>
        LET x == Last.ins.vx
            px == V(Pre, x)
            py == V(Pre, Last.ins.vy)
        IN  /\ status = "ok"
            /\ V(chip, 15) = IF px > py THEN 1 ELSE 0
            /\ V(chip, x) = IF px >= py THEN px - py ELSE 256 + (px - py)

\* Sub(0, 1) with V0 < V1: the difference wraps
C6_Witness ==
    /\ Executed
    /\ Last.ins = Sub(0, 1)
    /\ V(Pre, 0) = 5
    /\ V(Pre, 1) = 150
    /\ V(chip, 0) = 111
    /\ V(chip, 15) = 0

-----------------------------------------------------------------------------
(* C7 *)

\* C7: after Subn(x, y) with x # 0xF, VF = 1 if Vy > Vx else 0 and
\* Vx = (Vy - Vx) mod 256, for the values held before, and Vy is unchanged
\* when y is neither x nor 0xF.
C7_Subn ==
    (Executed /\ Last.ins.op = "Subn" /\ Last.ins.vx # 15) =>
        LET x == Last.ins.vx
            y == Last.ins.vy
            px == V(Pre, x)
            py == V(Pre, y)
        IN  /\ status = "ok"
            /\ V(chip, 15) = IF py > px THEN 1 ELSE 0
            /\ V(chip, x) = IF py >= px THEN py - px ELSE 256 + (py - px)
            /\ (y # x /\ y # 15) => V(chip, y) = py

\* Subn(0, 1) with V1 > V0: no borrow
C7_Witness ==
    /\ Executed
    /\ Last.ins = Subn(0, 1)
    /\ V(Pre, 0) = 5
    /\ V(Pre, 1) = 150
    /\ V(chip, 0) = 145
    /\ V(chip, 1) = 150
    /\ V(chip, 15) = 1

-----------------------------------------------------------------------------
(* C8 *)

\* C8: after Shr(x) with x # 0xF, VF is the least significant bit Vx had and
\* Vx is half of what it was, rounded down.
C8_Shr ==
    (Executed /\ Last.ins.op = "Shr" /\ Last.ins.vx # 15) =>
        LET x == Last.ins.vx
        IN  /\ status = "ok"
            /\ V(chip, 15) = V(Pre, x) % 2
            /\ 2 * V(chip, x) + V(chip, 15) = V(Pre, x)

\* Shr(0) of an odd value with its top bit set
C8_Witness ==
    /\ Executed
    /\ Last.ins = Shr(0)
    /\ V(Pre, 0) = 255
    /\ V(chip, 0) = 127
    /\ V(chip, 15) = 1

-----------------------------------------------------------------------------
(* C9 *)

\* C9: after Shl(x) with x # 0xF, VF is bit 7 of the Vx held before and
\* Vx = (2 * Vx) mod 256; the call does not panic when bit 7 is set, and the
\* bit shifted out shows in no register but VF.
C9_Shl ==
    (Executed /\ Last.ins.op = "Shl" /\ Last.ins.vx # 15) =>
        LET x == Last.ins.vx
            msb == IF V(Pre, x) >= 128 THEN 1 ELSE 0
        IN  /\ status = "ok"
            /\ V(chip, 15) = msb
            /\ V(chip, x) = 2 * V(Pre, x) - 256 * msb
            /\ SameRegistersBut(chip, Pre, {x, 15})

\* Shl(0) of 150: bit 7 is shifted out
C9_Witness ==
    /\ Executed
    /\ Last.ins = Shl(0)
    /\ V(Pre, 0) = 150
    /\ V(chip, 0) = 44
    /\ V(chip, 15) = 1
    /\ status = "ok"

-----------------------------------------------------------------------------
(* C10 *)

\* The result and the flag of a VF-writing instruction, from its operands
ResultOf(name, a, b) ==
    CASE name = "Add" -> (a + b) % 256
      [] name = "Sub" -> (a - b) % 256
      [] name = "Subn" -> (b - a) % 256
      [] name = "Shr" -> a \div 2
      [] name = "Shl" -> (2 * a) % 256

FlagOf(name, a, b) ==
    CASE name = "Add" -> IF a + b > 255 THEN 1 ELSE 0
      [] name = "Sub" -> IF a > b THEN 1 ELSE 0
      [] name = "Subn" -> IF b > a THEN 1 ELSE 0
      [] name = "Shr" -> a % 2
      [] name = "Shl" -> a \div 128

\* C10: Add, Sub, Subn, Shr and Shl compute their result and their flag from
\* the register values held before the instruction, for every x and y: with
\* y = 0xF the operand Vy is the old VF, and with x = 0xF the operand Vx is
\* the old VF, whichever of the two writes to register 0xF is the later.
C10_ReadsBeforeWrite ==
    (Executed /\ Last.ins.op \in {"Add", "Sub", "Subn", "Shr", "Shl"}) =>
        LET name == Last.ins.op
            x == Last.ins.vx
            a == V(Pre, x)
            b == IF name \in {"Shr", "Shl"} THEN 0 ELSE V(Pre, Last.ins.vy)
        IN  IF x # 15
            THEN /\ V(chip, x) = ResultOf(name, a, b)
                 /\ V(chip, 15) = FlagOf(name, a, b)
            ELSE V(chip, 15) \in {ResultOf(name, a, b), FlagOf(name, a, b)}

\* Add(0, 0xF) adds the VF the Chip was seeded with, and overwrites it
C10_Witness ==
    /\ Executed
    /\ Last.ins = Add(0, 15)
    /\ V(Pre, 0) = 5
    /\ V(Pre, 15) = 150
    /\ V(chip, 0) = 155
    /\ V(chip, 15) = 0

-----------------------------------------------------------------------------
(* C11 *)

\* C11: after AddByte(x, kk) with x # 0xF, Vx = (Vx + kk) mod 256 for the Vx
\* held before; the call does not panic when the sum passes 255, and VF and
\* every other register but Vx are unchanged.
C11_AddByte ==
    (Executed /\ Last.ins.op = "AddByte" /\ Last.ins.vx # 15) =>
        LET x == Last.ins.vx
            sum == V(Pre, x) + Last.ins.value
        IN  /\ status = "ok"
            /\ V(chip, x) = IF sum > 255 THEN sum - 256 ELSE sum
            /\ SameRegistersBut(chip, Pre, {x})

\* AddByte(0, 10) on 255 wraps to 9 and leaves the seeded VF alone
C11_Witness ==
    /\ Executed
    /\ Last.ins = AddByte(0, 10)
    /\ V(Pre, 0) = 255
    /\ V(chip, 0) = 9
    /\ V(Pre, 15) = 150
    /\ V(chip, 15) = 150

-----------------------------------------------------------------------------
(* C12 *)

\* bit k of the byte v
Bit(v, k) == (v \div (2 ^ k)) % 2

\* C12: after Or, And or Xor (x, y) with x # 0xF, each bit of Vx is the OR,
\* AND or XOR of that bit of the Vx and Vy held before, and VF, like every
\* register other than Vx, keeps its value.
C12_Bitwise ==
    (Executed /\ Last.ins.op \in {"Or", "And", "Xor"} /\ Last.ins.vx # 15) =>
        LET x == Last.ins.vx
            a == V(Pre, x)
            b == V(Pre, Last.ins.vy)
        IN  /\ status = "ok"
            /\ V(chip, x) \in Byte
            /\ \A k \in 0 .. 7 :
                  Bit(V(chip, x), k) =
                      CASE Last.ins.op = "Or" ->
                               IF Bit(a, k) + Bit(b, k) >= 1 THEN 1 ELSE 0
                        [] Last.ins.op = "And" ->
                               IF Bit(a, k) + Bit(b, k) = 2 THEN 1 ELSE 0
                        [] Last.ins.op = "Xor" ->
                               IF Bit(a, k) + Bit(b, k) = 1 THEN 1 ELSE 0
            /\ SameRegistersBut(chip, Pre, {x})

\* Xor(0, 1) of 5 and 150 with VF seeded 150: V0 = 147, VF still 150
C12_Witness ==
    /\ Executed
    /\ Last.ins = Xor(0, 1)
    /\ V(Pre, 0) = 5
    /\ V(Pre, 1) = 150
    /\ V(chip, 0) = 147
    /\ V(chip, 15) = 150

-----------------------------------------------------------------------------
(* C13 *)

\* whether the skip instruction ins skips on Chip c
SkipCondition(ins, c) ==
    CASE ins.op = "SeByte" -> V(c, ins.vx) = ins.value
      [] ins.op = "SneByte" -> V(c, ins.vx) # ins.value
      [] ins.op = "Se" -> V(c, ins.vx) = V(c, ins.vy)
      [] ins.op = "Sne" -> V(c, ins.vx) # V(c, ins.vy)

-----------------------------------------------------------------------------
(* C15 *)

\* C15: Ret on an empty stack returns normally and changes nothing: the
\* program counter, the stack, the registers, memory, the index register and
\* the timers are as they were.
C15_RetEmpty ==
    (Executed /\ Last.ins.op = "Ret" /\ Pre.stack = << >>) =>
        /\ status = "ok"
        /\ chip = Pre

\* Ret with nothing pushed, the program counter at 512 after a Jp
C15_Witness ==
    /\ Len(hist) = 2
    /\ hist[1].ins = Jp(512)
    /\ Last.ins = Ret
    /\ Pre.stack = << >>
    /\ status = "ok"
    /\ chip.program_counter = 512

-----------------------------------------------------------------------------
(* C16 *)

-----------------------------------------------------------------------------
(* C17 *)

\* C17: for every x in 0..15 and every kk, LdByte(x, kk) leaves Vx = kk
\* whatever Vx held, a later LdByte to the same register included, and
\* changes no other register.
C17_LdByte ==
    (Executed /\ Last.ins.op = "LdByte") =>
        /\ status = "ok"
        /\ V(chip, Last.ins.vx) = Last.ins.value
        /\ SameRegistersBut(chip, Pre, {Last.ins.vx})

\* LdByte(7, 0) over the 255 an earlier LdByte(7, 255) stored
C17_Witness ==
    /\ Len(hist) = 2
    /\ hist[1].ins = LdByte(7, 255)
    /\ Last.ins = LdByte(7, 0)
    /\ V(Pre, 7) = 255
    /\ V(chip, 7) = 0

-----------------------------------------------------------------------------
(* C18 *)

\* C18: no execution counts a timer down. The delay timer changes only when
\* LdDelayVx(x) executes, and is then the Vx held before; the sound timer
\* never changes; LdVxDelay(x) copies the delay timer to Vx and leaves the
\* delay timer as it was.
C18_Timers ==
    (Executed /\ target = "lib") =>
        /\ chip.register.sound = Pre.register.sound
        /\ chip.register.sound = 0
        /\ (status = "ok" /\ Last.ins.op = "LdDelayVx") =>
              chip.register.delay = V(Pre, Last.ins.vx)
        /\ Last.ins.op # "LdDelayVx" =>
              chip.register.delay = Pre.register.delay
        /\ Last.ins.op = "LdVxDelay" =>
              /\ status = "ok"
              /\ V(chip, Last.ins.vx) = Pre.register.delay
              /\ SameRegistersBut(chip, Pre, {Last.ins.vx})

\* LdDelayVx(0) sets the delay timer to 5; LdVxDelay(15) then reads 5
C18_Witness ==
    /\ Len(hist) = 2
    /\ hist[1].ins = LdDelayVx(0)
    /\ Last.ins = LdVxDelay(15)
    /\ Pre.register.delay = 5
    /\ chip.register.delay = 5
    /\ V(chip, 15) = 5

-----------------------------------------------------------------------------
(* C14 *)

\* the latest two calls were Call(A) with A <= 0xFFF and then Ret
CallThenRet ==
    /\ Len(hist) >= 2
    /\ hist[Len(hist) - 1].ins.op = "Call"
    /\ hist[Len(hist) - 1].ins.addr <= 4095
    /\ Last.ins.op = "Ret"

\* the Chip before the Call of CallThenRet
PreCall == hist[Len(hist) - 1].before

\* what Call(A), A <= 0xFFF, alone does: the program counter is A and the
\* program counter left is on top of the stack
CallPushes ==
    (Executed /\ Last.ins.op = "Call" /\ Last.ins.addr <= 4095) =>
        /\ status = "ok"
        /\ chip.program_counter = Last.ins.addr
        /\ chip.stack = Append(Pre.stack, Pre.program_counter)
        /\ chip = [Pre EXCEPT !.program_counter = chip.program_counter,
                              !.stack = chip.stack]

-----------------------------------------------------------------------------
(* C19 *)

\* C19, as stated: from a fresh machine, every execute call of a run of
\* instructions other than Sys and Cls, with register indices in 0..15 and
\* addresses <= 0xFFF, completes normally, and the program counter never
\* overflows its 16 bits, however many skips were taken.
C19_NeverFails ==
    Executed =>
        /\ status = "ok"
        /\ Last.ins.op = "SeByte" => chip.program_counter >= Pre.program_counter

-----------------------------------------------------------------------------
(* C20 *)

\* the call names a register index of 16 or more, or a memory key of 4096 or
\* more
OutOfRange(ins) ==
    \/ "vx" \in DOMAIN ins /\ ins.vx >= RegisterCount
    \/ "vy" \in DOMAIN ins /\ ins.vy >= RegisterCount
    \/ "key" \in DOMAIN ins /\ ins.key >= MemorySize

\* C20: an instruction carrying a register index >= 16, and a Memory get or
\* set with a key >= 4096, ends in a panic and never reaches index mod 16
\* (mod 4096); the panic comes before any write of the call, so registers,
\* timers, program counter, stack and memory are as before it.
C20_FailFast ==
    (Executed /\ OutOfRange(Last.ins)) =>
        /\ status = "panic"
        /\ chip = Pre

\* in-range calls are served, so the panic is the out-of-range index's doing
C20_InRange ==
    (Executed /\ ~OutOfRange(Last.ins)) =>
        /\ status = "ok"
        /\ Last.ins.op = "Memory::set" =>
              /\ Memory_get(chip.memory, Last.ins.key) = Last.ins.value
              /\ chip.register = Pre.register
        /\ Last.ins.op = "Memory::get" =>
              /\ chip = Pre
              /\ Last.ins.returned = Memory_get(chip.memory, Last.ins.key)

\* Add(0, 31) after LdDelayVx(0) panics with V0, VF and the delay timer as
\* they were
C20_Witness ==
    /\ Len(hist) = 2
    /\ hist[1].ins = LdDelayVx(0)
    /\ Last.ins = Add(0, 31)
    /\ status = "panic"
    /\ chip.register.delay = 5
    /\ V(chip, 0) = 5
    /\ V(chip, 15) = 150

\* chip.memory.set(8191, 7) after set(4095, 7) panics and leaves the memory
C20_MemoryWitness ==
    /\ Len(hist) = 2
    /\ hist[1].ins = [op |-> "Memory::set", key |-> 4095, value |-> 7]
    /\ Last.ins = [op |-> "Memory::set", key |-> 8191, value |-> 7]
    /\ status = "panic"
    /\ Memory_get(chip.memory, 4095) = 7

-----------------------------------------------------------------------------
(* C21 *)

\* the instructions that may assign the program counter
FlowOps == {"Ret", "Jp", "Call", "JpV0", "SeByte", "SneByte", "Se", "Sne"}

\* C21: every instruction other than Ret, Jp, Call, JpV0 and the four skips
\* leaves the program counter and the stack unchanged; the stack changes only
\* on Call and on Ret with a non-empty stack; no instruction modifies memory.
C21_Frame ==
    (Executed /\ target = "lib") =>
        /\ Last.ins.op \notin FlowOps =>
              /\ chip.program_counter = Pre.program_counter
              /\ chip.stack = Pre.stack
        /\ chip.stack # Pre.stack =>
              \/ Last.ins.op = "Call"
              \/ Last.ins.op = "Ret" /\ Pre.stack # << >>
        /\ chip.memory = Pre.memory

\* Ld(0, 1) after Call(512) changes V0 and leaves the program counter at 512
\* and the saved 0 on the stack
C21_Witness ==
    /\ Len(hist) = 2
    /\ hist[1].ins = Call(512)
    /\ Last.ins = Ld(0, 1)
    /\ V(Pre, 0) = 5
    /\ V(chip, 0) = 150
    /\ chip.program_counter = 512
    /\ chip.stack = <<0>>

-----------------------------------------------------------------------------
(* C22 *)

\* C22: JpV0(addr) with addr <= 0xFFF leaves the program counter at
\* addr + V0 exactly, neither cut to 8 bits nor reduced mod 4096, and
\* Jp(addr) leaves it at addr; neither changes anything else.
C22_Jumps ==
    (Executed /\ Last.ins.op \in {"Jp", "JpV0"} /\ Last.ins.addr <= 4095) =>
        /\ status = "ok"
        /\ chip.program_counter =
              IF Last.ins.op = "JpV0" THEN Last.ins.addr + V(Pre, 0)
              ELSE Last.ins.addr
        /\ chip = [Pre EXCEPT !.program_counter = chip.program_counter]

\* JpV0(4095) with V0 = 255 lands on 4350, from where an earlier Jp left it
C22_Witness ==
    /\ Len(hist) = 2
    /\ hist[1].ins = Jp(512)
    /\ Last.ins = JpV0(4095)
    /\ V(Pre, 0) = 255
    /\ Pre.program_counter = 512
    /\ chip.program_counter = 4350

-----------------------------------------------------------------------------
(* C23 *)

\* the latest two calls were first(x) and then second(x), on one register
\* x # 0xF
PairOn(first, second) ==
    /\ Len(hist) >= 2
    /\ hist[Len(hist) - 1].ins.op = first
    /\ Last.ins.op = second
    /\ Last.ins.vx = hist[Len(hist) - 1].ins.vx
    /\ Last.ins.vx # 15

\* the Chip before the first call of a pair
PrePair == hist[Len(hist) - 1].before

\* C23: for every Vx, x # 0xF, Shr(x) then Shl(x) leaves Vx as it was with
\* bit 0 cleared and VF = 0, and Shl(x) then Shr(x) leaves Vx as it was with
\* bit 7 cleared and VF = 0; the pair restores Vx exactly when the bit the
\* first shift put out was 0.
C23_ShiftPairs ==
    /\ PairOn("Shr", "Shl") =>
          LET v == V(PrePair, Last.ins.vx)
          IN  /\ status = "ok"
              /\ V(chip, Last.ins.vx) = v - Bit(v, 0)
              /\ V(chip, 15) = 0
              /\ (V(chip, Last.ins.vx) = v) <=> (Bit(v, 0) = 0)
    /\ PairOn("Shl", "Shr") =>
          LET v == V(PrePair, Last.ins.vx)
          IN  /\ status = "ok"
              /\ V(chip, Last.ins.vx) = v - (128 * Bit(v, 7))
              /\ V(chip, 15) = 0
              /\ (V(chip, Last.ins.vx) = v) <=> (Bit(v, 7) = 0)

\* 150: Shl gives 44 with VF = 1, Shr then gives 22 with VF = 0
C23_Witness ==
    /\ PairOn("Shl", "Shr")
    /\ V(PrePair, Last.ins.vx) = 150
    /\ V(Pre, Last.ins.vx) = 44
    /\ V(Pre, 15) = 1
    /\ V(chip, Last.ins.vx) = 22
    /\ V(chip, 15) = 0

-----------------------------------------------------------------------------
(* C24 *)

\* the latest two calls were Add(x, y) and then Sub(x, y), x and y distinct
\* and neither 0xF
AddThenSub ==
    /\ Len(hist) >= 2
    /\ hist[Len(hist) - 1].ins.op = "Add"
    /\ Last.ins.op = "Sub"
    /\ Last.ins.vx = hist[Len(hist) - 1].ins.vx
    /\ Last.ins.vy = hist[Len(hist) - 1].ins.vy
    /\ Last.ins.vx # Last.ins.vy
    /\ Last.ins.vx # 15
    /\ Last.ins.vy # 15

\* C24: Add(x, y) then Sub(x, y), for distinct x and y other than 0xF and any
\* Vx and Vy, leaves Vx as it was before the Add, also when the Add
\* overflowed; and when the Add left VF = 1 the Sub leaves VF = 0.
C24_AddThenSub ==
    AddThenSub =>
        /\ status = "ok"
        /\ V(chip, Last.ins.vx) = V(PrePair, Last.ins.vx)
        /\ V(chip, Last.ins.vy) = V(PrePair, Last.ins.vy)
        /\ V(Pre, 15) = 1 => V(chip, 15) = 0

\* 200 + 100 overflows to 44 with VF = 1; Sub gives 200 back with VF = 0
C24_Witness ==
    /\ AddThenSub
    /\ V(PrePair, 0) = 200
    /\ V(PrePair, 1) = 100
    /\ V(Pre, 0) = 44
    /\ V(Pre, 15) = 1
    /\ V(chip, 0) = 200
    /\ V(chip, 15) = 0

-----------------------------------------------------------------------------
(* C25 *)

\* the opcodes of the claim: 6xkk, and 8xyN for N in 0..7 and E
ArithCode(w) ==
    \/ w \div 4096 = 6
    \/ w \div 4096 = 8 /\ w % 16 \in {0, 1, 2, 3, 4, 5, 6, 7, 14}

\* every register index the instruction names is in 0..15
IndicesInRange(ins) ==
    /\ "vx" \in DOMAIN ins => ins.vx \in 0 .. 15
    /\ "vy" \in DOMAIN ins => ins.vy \in 0 .. 15

\* C25: parse(0x6xkk) = LdByte(x, kk); parse(0x8xyN) is Ld, Or, And, Xor,
\* Add, Sub, Subn of (x, y) for N = 0, 1, 2, 3, 4, 5, 7; parse(0x8xy6) =
\* Shr(x) and parse(0x8xyE) = Shl(x) whatever y is; every register index of a
\* decoded instruction is in 0..15, so executing it does not panic.
C25_ArithDecode ==
    ArithCode(op) =>
        /\ decoded # NotCalled =>
              /\ decoded = Returned(DecodeTable(op))
              /\ IndicesInRange(decoded.value)
        /\ Executed =>
              /\ Last.ins = DecodeTable(op)
              /\ status = "ok"

\* 0x8AB6 is parsed as Shr(10), which then executes
C25_Witness ==
    /\ op = 35510
    /\ decoded = Returned(Shr(10))
    /\ Executed
    /\ Last.ins = Shr(10)
    /\ status = "ok"

-----------------------------------------------------------------------------
(* C26 *)

\* C26, as stated: from a fresh machine and with address operands <= 0xFFF,
\* the program counter is <= 0xFFF in every reachable state, also after JpV0
\* with V0 > 0 and after a skip taken at 0xFFE or 0xFFF.
C26_AsClaimed == target = "lib" => chip.program_counter <= 4095

\* C26, as the code has it: the program counter is a 16-bit value; it is
\* <= 0xFFF after Jp, Call, and Ret on a non-empty stack, <= 0xFFF + 255
\* after JpV0, and a skip adds 2 to it unmasked, so that it may pass 0xFFF.
C26_Bounded ==
    target = "lib" =>
        /\ chip.program_counter \in 0 .. (U16 - 1)
        /\ (Executed /\ status = "ok") =>
              /\ Last.ins.op \in {"Jp", "Call"} => chip.program_counter <= 4095
              /\ (Last.ins.op = "Ret" /\ Pre.stack # << >>) =>
                    chip.program_counter <= 4095
              /\ Last.ins.op = "JpV0" => chip.program_counter <= 4095 + 255
              /\ Last.ins.op = "SeByte" =>
                    chip.program_counter <= Pre.program_counter + 2

\* a skip taken at 0xFFF, after Jp(0xFFF), leaves the program counter at 4097
C26_Witness ==
    /\ Len(hist) = 2
    /\ hist[1].ins = Jp(4095)
    /\ Last.ins = SeByte(0, 5)
    /\ Pre.program_counter = 4095
    /\ chip.program_counter = 4097

-----------------------------------------------------------------------------
(* C27 *)

\* a sequence without its last element
Front(q) == SubSeq(q, 1, Len(q) - 1)

RECURSIVE Open(_)
\* the Calls of the calls h not yet matched by a Ret, as positions in h,
\* oldest first
Open(h) ==
    IF h = << >> THEN << >>
    ELSE LET o == Open(Front(h))
             e == h[Len(h)]
         IN  IF e.ins.op = "Call" THEN Append(o, Len(h))
             ELSE IF e.ins.op = "Ret" /\ o # << >> THEN Front(o)
             ELSE o

\* the stack holds, oldest first, the program counters the open Calls left
HoldsOpenCalls ==
    chip.stack = [n \in 1 .. Len(Open(hist)) |->
                     hist[Open(hist)[n]].before.program_counter]

\* the Call the latest call, a Ret, matched
Matched == hist[Open(Front(hist))[Len(Open(Front(hist)))]]

MatchedRet ==
    /\ Executed
    /\ Last.ins.op = "Ret"
    /\ Open(Front(hist)) # << >>

====
